---------------------------- MODULE Spec2Model ----------------------------
(**************************************************************************)
(* A model of ddbot.py: the DingTalk custom-robot client (DDBot) and its  *)
(* coroutine mirror (AsyncDDBot).                                         *)
(*                                                                        *)
(* Text is modelled as a sequence of one-character strings wherever the   *)
(* code looks inside it (URL quoting, list(str), str(int)); opaque text   *)
(* that is only passed through is a TLA+ string.                          *)
(**************************************************************************)
EXTENDS Integers, Sequences, FiniteSets, TLC

VARIABLES
    root,            \* logging.root: [handlers, level]
    default_logger,  \* logging.getLogger("ddbot"): [level, handlers]
    bots,            \* the client objects constructed so far
    clock,           \* round(time.time() * 1000)
    tasks,           \* coroutines running AsyncDDBot.post
    last             \* the latest step a caller can observe

vars == <<root, default_logger, bots, clock, tasks, last>>

\* ------------------------------------------------------------------ bounds
MaxBots == 2
MaxClock == 1
\* The clock value (milliseconds) at which the process starts.
Epoch == 9
MaxTasks == 2
MaxSeq == 2

BotIds == 1..MaxBots
TaskIds == 1..MaxTasks

\* ------------------------------------------------------------- characters
Digits == <<"0", "1", "2", "3", "4", "5", "6", "7", "8", "9">>

\* str(n) for a non-negative int.
RECURSIVE IntStr(_)
IntStr(n) == IF n < 10 THEN <<Digits[n + 1]>>
             ELSE IntStr(n \div 10) \o <<Digits[(n % 10) + 1]>>

DigitValue(c) == IF \E k \in 1..10 : Digits[k] = c
                 THEN (CHOOSE k \in 1..10 : Digits[k] = c) - 1
                 ELSE 1

RECURSIVE CharSum(_)
CharSum(s) == IF s = <<>> THEN 0 ELSE DigitValue(Head(s)) + CharSum(Tail(s))

\* Characters urllib.parse.quote leaves alone (letters, digits, "_.-~").
Letters == {"a", "b", "c", "d", "e", "f", "g", "h", "i", "j", "k", "l", "m",
            "n", "o", "p", "q", "r", "s", "t", "u", "v", "w", "x", "y", "z",
            "A", "B", "C", "D", "E", "F", "G", "H", "I", "J", "K", "L", "M",
            "N", "O", "P", "Q", "R", "S", "T", "U", "V", "W", "X", "Y", "Z"}

Unreserved == Letters \cup {Digits[k] : k \in 1..10} \cup {"_", ".", "-", "~"}

\* The "%XX" escape of one reserved character.
PercentEscape(c) ==
    CASE c = "+" -> <<"%", "2", "B">>
      [] c = "/" -> <<"%", "2", "F">>
      [] c = "=" -> <<"%", "3", "D">>
      [] c = "%" -> <<"%", "2", "5">>
      [] c = "\n" -> <<"%", "0", "A">>
      [] OTHER -> <<"%", "3", "F">>

\* urllib.parse.quote_plus: a space becomes "+", unreserved characters stay,
\* every other character becomes its percent escape.
RECURSIVE quote_plus(_)
quote_plus(s) ==
    IF s = <<>> THEN <<>>
    ELSE (IF Head(s) = " " THEN <<"+">>
          ELSE IF Head(s) \in Unreserved THEN <<Head(s)>>
          ELSE PercentEscape(Head(s))) \o quote_plus(Tail(s))

\* The character a "%XX" escape stands for.
PercentChar(h, l) ==
    CASE h = "2" /\ l = "B" -> "+"
      [] h = "2" /\ l = "F" -> "/"
      [] h = "3" /\ l = "D" -> "="
      [] h = "2" /\ l = "5" -> "%"
      [] h = "0" /\ l = "A" -> "\n"
      [] OTHER -> "?"

\* urllib.parse.unquote_plus: what a server does once to a query value.
RECURSIVE unquote_plus(_)
unquote_plus(s) ==
    IF s = <<>> THEN <<>>
    ELSE IF Head(s) = "+" THEN <<" ">> \o unquote_plus(Tail(s))
    ELSE IF Head(s) = "%" /\ Len(s) >= 3
         THEN <<PercentChar(s[2], s[3])>> \o unquote_plus(SubSeq(s, 4, Len(s)))
    ELSE <<Head(s)>> \o unquote_plus(Tail(s))

\* ---------------------------------------------------------------- logging
\* logging's numeric order of the level names.
LevelNo(l) ==
    CASE l = "NOTSET" -> 0
      [] l = "INFO" -> 20
      [] l = "WARNING" -> 30
      [] l = "ERROR" -> 40

\* Logger.getEffectiveLevel for the "ddbot" logger, whose parent is root.
EffectiveLevel(lg, rt) == IF lg.level # "NOTSET" THEN lg.level ELSE rt.level

\* How many handlers a record of the "ddbot" logger reaches (its own, then
\* root's by propagation); with none, logging.lastResort prints WARNING and up.
HandlerCount(lg, rt) == lg.handlers + (IF rt.handlers THEN 1 ELSE 0)

Copies(x, n) == [i \in 1..n |-> x]

\* Logger.info / Logger.error on one call record: the records written out.
Handle(call, lg, rt) ==
    IF LevelNo(call.level) < LevelNo(EffectiveLevel(lg, rt)) THEN <<>>
    ELSE IF HandlerCount(lg, rt) = 0
         THEN (IF LevelNo(call.level) >= LevelNo("WARNING") THEN <<call>> ELSE <<>>)
    ELSE Copies(call, HandlerCount(lg, rt))

RECURSIVE HandleAll(_, _, _)
HandleAll(calls, lg, rt) ==
    IF calls = <<>> THEN <<>>
    ELSE Handle(Head(calls), lg, rt) \o HandleAll(Tail(calls), lg, rt)

\* What self.logger writes for the calls one post made.  A logger object the
\* caller passed in receives every call as it is.
Emitted(self, calls, lg, rt) ==
    IF self.logger = "object" THEN calls ELSE HandleAll(calls, lg, rt)

\* ------------------------------------------------------------ construction
NoBot == [logger |-> "none", cls |-> "none", access_token |-> <<>>,
          secret |-> <<>>, arg |-> "none"]

\* The values of the constructor's logger parameter: True, False, or a logger.
LoggerArgs == {"True", "False", "object"}
Tokens == {<<"t", "k">>}
Secrets == {<<"s", "c">>}

\* DDBot.__init__, the part that sets up the shared "ddbot" logger.
DDBot_init_logger(arg, lg, rt) ==
    IF arg \notin {"True", "False"} THEN lg
    ELSE IF ~rt.handlers /\ lg.level = "NOTSET"
         THEN [level |-> IF arg = "True" THEN "INFO" ELSE "ERROR",
               handlers |-> lg.handlers + 1]
    ELSE lg

\* DDBot.__init__, the object it leaves (arg remembers the logger parameter).
DDBot_init(access_token, secret, arg) ==
    [logger |-> IF arg \notin {"True", "False"} THEN "object" ELSE "default_logger",
     cls |-> "DDBot", access_token |-> access_token, secret |-> secret,
     arg |-> arg]

\* AsyncDDBot.__init__, the part that sets up the shared "ddbot" logger.
AsyncDDBot_init_logger(arg, lg, rt) ==
    IF arg \notin {"True", "False"} THEN lg
    ELSE IF ~rt.handlers /\ lg.level = "NOTSET"
         THEN [level |-> IF arg = "True" THEN "INFO" ELSE "ERROR",
               handlers |-> lg.handlers + 1]
    ELSE lg

\* AsyncDDBot.__init__, the object it leaves.
AsyncDDBot_init(access_token, secret, arg) ==
    [logger |-> IF arg \notin {"True", "False"} THEN "object" ELSE "default_logger",
     cls |-> "AsyncDDBot", access_token |-> access_token, secret |-> secret,
     arg |-> arg]

\* ----------------------------------------------------------------- signing
\* base64.b64encode(hmac.new(key, msg, sha256).digest()): the hash is not
\* computed; it is a fixed function of key and message into base64 texts,
\* which (32 bytes encoded) always end in one "=" and may hold "+" and "/".
B64Digests == << <<"a", "+", "b", "=">>, <<"Q", "/", "k", "=">>,
                 <<"Z", "9", "t", "=">> >>

b64_hmac_sha256(key, msg) ==
    B64Digests[((CharSum(key) + CharSum(msg)) % Len(B64Digests)) + 1]

\* A timestamp computed once, when the process started, and used ever after.
Timestamp_cached(now) == IntStr(Epoch)

\* str(round(time.time() * 1000)) with the clock already in milliseconds.
Timestamp(now) == IntStr(now)

\* httpx.URL(url, params): the query is urlencode(params), which applies
\* quote_plus to every value, in the order of the dict.
httpx_URL(base, params) ==
    [base |-> base,
     query |-> [i \in 1..Len(params) |-> <<params[i][1], quote_plus(params[i][2])>>]]

\* DDBot.webhook.
webhook(self, now) ==
    LET timestamp == Timestamp(now)
        string_to_sign == timestamp \o <<"\n">> \o self.secret
        sign == quote_plus(b64_hmac_sha256(self.secret, string_to_sign))
    IN  httpx_URL("https://oapi.dingtalk.com/robot/send",
                  << <<"timestamp", timestamp>>,
                     <<"sign", sign>>,
                     <<"access_token", self.access_token>> >>)

\* AsyncDDBot.webhook.
async_webhook(self, now) ==
    LET timestamp == Timestamp(now)
        string_to_sign == timestamp \o <<"\n">> \o self.secret
        sign == quote_plus(b64_hmac_sha256(self.secret, string_to_sign))
    IN  httpx_URL("https://oapi.dingtalk.com/robot/send",
                  << <<"timestamp", timestamp>>,
                     <<"sign", sign>>,
                     <<"access_token", self.access_token>> >>)

\* The value of one query parameter of a URL.
QueryValue(url, name) ==
    LET i == CHOOSE k \in 1..Len(url.query) : url.query[k][1] = name
    IN  url.query[i][2]

\* --------------------------------------------------------------- transport
\* The response bodies the remote end may send.
Bodies == {"oops", "null", "\"oops\"", "[]", "{}",
           "{\"errcode\":0}", "{\"errmsg\":\"ok\"}",
           "{\"errcode\":0,\"errmsg\":\"ok\"}",
           "{\"errcode\":310000,\"errmsg\":\"sign fail\"}",
           "{\"errcode\":300001,\"errmsg\":\"bad\"}"}

\* What client.post can end with: an exception of the transport, or a
\* response with a status and a body.
Responses ==
    {[exc |-> e, status |-> 0, body |-> ""] : e \in {"ConnectError", "ReadTimeout"}}
    \cup {[exc |-> "none", status |-> 404, body |-> b] :
            b \in {"oops", "{\"errcode\":0,\"errmsg\":\"ok\"}"}}
    \cup {[exc |-> "none", status |-> 200, body |-> b] : b \in Bodies}

\* Response.raise_for_status raises for the 4xx and 5xx statuses.
raise_for_status(r) == r.status >= 400

JSON(t, keys, errcode, errmsg) ==
    [t |-> t, keys |-> keys, errcode |-> errcode, errmsg |-> errmsg]

\* Response.json(): the decoded value, t = "invalid" when decoding raises.
json(body) ==
    CASE body = "null" -> JSON("null", {}, 0, "")
      [] body = "\"oops\"" -> JSON("string", {}, 0, "")
      [] body = "[]" -> JSON("array", {}, 0, "")
      [] body = "{}" -> JSON("object", {}, 0, "")
      [] body = "{\"errcode\":0}" -> JSON("object", {"errcode"}, 0, "")
      [] body = "{\"errmsg\":\"ok\"}" -> JSON("object", {"errmsg"}, 0, "ok")
      [] body = "{\"errcode\":0,\"errmsg\":\"ok\"}" ->
             JSON("object", {"errcode", "errmsg"}, 0, "ok")
      [] body = "{\"errcode\":310000,\"errmsg\":\"sign fail\"}" ->
             JSON("object", {"errcode", "errmsg"}, 310000, "sign fail")
      [] body = "{\"errcode\":300001,\"errmsg\":\"bad\"}" ->
             JSON("object", {"errcode", "errmsg"}, 300001, "bad")
      [] OTHER -> JSON("invalid", {}, 0, "")

NoJSON == JSON("invalid", {}, 0, "")

\* The values post can return: None, a str, or the decoded structure.
PyNone == [json |-> NoJSON, tag |-> "None", text |-> ""]
PyText(s) == [json |-> NoJSON, tag |-> "str", text |-> s]
PyDecoded(j) == [json |-> j, tag |-> "json", text |-> ""]

\* One call of a logger method.  fmt names the message: "traceback" is
\* traceback.format_exc(), "format" the format-error text, "ok", "sign" and
\* "api" the three texts that are filled with errcode and errmsg.
LogCall(level, fmt, res) ==
    [level |-> level, errcode |-> res.errcode, errmsg |-> res.errmsg, fmt |-> fmt]

\* How a call ends: raised names the exception that left it ("none": it
\* returned ret), calls are the logger calls it made.
Outcome(raised, ret, calls) == [calls |-> calls, raised |-> raised, ret |-> ret]

\* The else branch of the inner try of DDBot.post: res["errcode"] and
\* "...".format(**res) run outside every except clause.
classify(res) ==
    IF res.t # "object" THEN Outcome("TypeError", PyNone, <<>>)
    ELSE IF "errcode" \notin res.keys THEN Outcome("KeyError", PyNone, <<>>)
    ELSE IF "errmsg" \notin res.keys THEN Outcome("KeyError", PyNone, <<>>)
    ELSE IF res.errcode = 0
         THEN Outcome("none", PyDecoded(res), <<LogCall("INFO", "ok", res)>>)
    ELSE IF res.errcode = 310000
         THEN Outcome("none", PyDecoded(res), <<LogCall("ERROR", "sign", res)>>)
    ELSE Outcome("none", PyDecoded(res), <<LogCall("ERROR", "api", res)>>)

\* DDBot.post from the moment client.post has ended with r.
post(self, r) ==
    IF r.exc # "none" \/ raise_for_status(r)
    THEN Outcome("none", PyNone, <<LogCall("ERROR", "traceback", NoJSON)>>)
    ELSE IF json(r.body).t = "invalid"
         THEN Outcome("none", PyText(r.body), <<LogCall("ERROR", "format", NoJSON)>>)
    ELSE classify(json(r.body))

\* The classification with errcode 310000 not told apart from other errors.
async_classify_generic(res) ==
    IF res.t # "object" THEN Outcome("TypeError", PyNone, <<>>)
    ELSE IF "errcode" \notin res.keys THEN Outcome("KeyError", PyNone, <<>>)
    ELSE IF "errmsg" \notin res.keys THEN Outcome("KeyError", PyNone, <<>>)
    ELSE IF res.errcode = 0
         THEN Outcome("none", PyDecoded(res), <<LogCall("INFO", "ok", res)>>)
    ELSE Outcome("none", PyDecoded(res), <<LogCall("ERROR", "api", res)>>)

\* The else branch of the inner try of AsyncDDBot.post.
async_classify(res) ==
    IF res.t # "object" THEN Outcome("TypeError", PyNone, <<>>)
    ELSE IF "errcode" \notin res.keys THEN Outcome("KeyError", PyNone, <<>>)
    ELSE IF "errmsg" \notin res.keys THEN Outcome("KeyError", PyNone, <<>>)
    ELSE IF res.errcode = 0
         THEN Outcome("none", PyDecoded(res), <<LogCall("INFO", "ok", res)>>)
    ELSE IF res.errcode = 310000
         THEN Outcome("none", PyDecoded(res), <<LogCall("ERROR", "sign", res)>>)
    ELSE Outcome("none", PyDecoded(res), <<LogCall("ERROR", "api", res)>>)

\* AsyncDDBot.post from the moment the awaited client.post has ended with r.
async_post(self, r) ==
    IF r.exc # "none" \/ raise_for_status(r)
    THEN Outcome("none", PyNone, <<LogCall("ERROR", "traceback", NoJSON)>>)
    ELSE IF json(r.body).t = "invalid"
         THEN Outcome("none", PyText(r.body), <<LogCall("ERROR", "format", NoJSON)>>)
    ELSE async_classify(json(r.body))

\* ----------------------------------------------------------- Python values
\* A Python value an argument may be: None, an int (n), a str (s, its
\* characters), a list or a tuple (items).  An exception raised while a
\* value is computed is carried as a value whose t names it.
PNone == [n |-> 0, s |-> <<>>, t |-> "NoneType", items |-> <<>>]
PInt(n) == [n |-> n, s |-> <<>>, t |-> "int", items |-> <<>>]
PStr(s) == [n |-> 0, s |-> s, t |-> "str", items |-> <<>>]
PList(items) == [n |-> 0, s |-> <<>>, t |-> "list", items |-> items]
PTuple(items) == [n |-> 0, s |-> <<>>, t |-> "tuple", items |-> items]
PError(name) == [n |-> 0, s |-> <<>>, t |-> name, items |-> <<>>]

PyErrors == {"TypeError", "IndexError", "KeyError"}

\* isinstance(v, collections.abc.Sequence)
IsSequence(v) == v.t \in {"str", "list", "tuple"}

\* list(v) for a sequence, and the items a for loop over v visits.
py_list(v) == IF v.t = "str" THEN [i \in 1..Len(v.s) |-> PStr(<<v.s[i]>>)]
              ELSE v.items

\* str(v) for an int or a str.
py_str(v) == IF v.t = "int" THEN PStr(IntStr(v.n)) ELSE v

\* v[k], k counted from 0.
py_index(v, k) ==
    IF v.t \in {"list", "tuple"}
    THEN (IF k < Len(v.items) THEN v.items[k + 1] ELSE PError("IndexError"))
    ELSE IF v.t = "str"
         THEN (IF k < Len(v.s) THEN PStr(<<v.s[k + 1]>>) ELSE PError("IndexError"))
    ELSE PError("TypeError")

NoPayload == [msgtype |-> "none"]

\* What a method has when it reaches self.post: the payload, or the
\* exception raised while building it.
Built(payload) == [raised |-> "none", payload |-> payload]
BuildRaised(name) == [raised |-> name, payload |-> NoPayload]

\* The first exception among the values a list display computes, in order.
FirstError(vals) ==
    IF \E i \in 1..Len(vals) : vals[i].t \in PyErrors
    THEN vals[CHOOSE i \in 1..Len(vals) :
                  /\ vals[i].t \in PyErrors
                  /\ \A j \in 1..(i - 1) : vals[j].t \notin PyErrors].t
    ELSE "none"

\* --------------------------------------------------------- DDBot's methods
\* DDBot.text
DDBot_text(content, atMobiles, isAtAll) ==
    LET mobiles == IF atMobiles.t = "NoneType" THEN <<>>
                   ELSE IF IsSequence(atMobiles) THEN py_list(atMobiles)
                   ELSE <<atMobiles>>
    IN  Built([text |-> [content |-> content],
               msgtype |-> "text",
               at |-> [atMobiles |-> [i \in 1..Len(mobiles) |-> py_str(mobiles[i])],
                       isAtAll |-> isAtAll]])

\* link with picURL and messageURL under each other's key.
link_swapped(title, text, messageURL, picURL) ==
    Built([msgtype |-> "link",
           link |-> [text |-> text, title |-> title, picUrl |-> messageURL,
                     messageUrl |-> picURL]])

\* DDBot.link
DDBot_link(title, text, messageURL, picURL) ==
    Built([msgtype |-> "link",
           link |-> [text |-> text, title |-> title, picUrl |-> picURL,
                     messageUrl |-> messageURL]])

\* DDBot.markdown
DDBot_markdown(title, text, atMobiles, isAtAll) ==
    LET mobiles == IF atMobiles.t = "NoneType" THEN <<>>
                   ELSE IF IsSequence(atMobiles) THEN py_list(atMobiles)
                   ELSE <<atMobiles>>
    IN  Built([msgtype |-> "markdown",
               at |-> [atMobiles |-> [i \in 1..Len(mobiles) |-> py_str(mobiles[i])],
                       isAtAll |-> isAtAll],
               markdown |-> [text |-> text, title |-> title]])

\* DDBot.wholeActionCard
DDBot_wholeActionCard(title, text, singleTitle, singleURL, btnOrientation) ==
    Built([msgtype |-> "actionCard",
           actionCard |-> [text |-> text, title |-> title,
                           singleTitle |-> singleTitle,
                           singleURL |-> singleURL, btnOrientation |-> btnOrientation]])

\* separatedActionCard building every button from the first item.
separatedActionCard_first(title, text, btns, btnOrientation) ==
    LET items == IF btns.t = "tuple" THEN <<btns>> ELSE py_list(btns)
        vals == [k \in 1..(2 * Len(items)) |->
                    py_index(items[(k + 1) \div 2], (k + 1) % 2)]
    IN  IF FirstError(vals) # "none" THEN BuildRaised(FirstError(vals))
        ELSE Built([msgtype |-> "actionCard",
                    actionCard |->
                        [text |-> text, title |-> title, btnOrientation |-> btnOrientation,
                         btns |-> [i \in 1..Len(items) |->
                                      [title |-> py_index(items[1], 0),
                                       actionURL |-> py_index(items[1], 1)]],
                         hideAvatar |-> "0"]])

\* DDBot.separatedActionCard
DDBot_separatedActionCard(title, text, btns, btnOrientation) ==
    LET items == IF btns.t = "tuple" THEN <<btns>> ELSE py_list(btns)
        vals == [k \in 1..(2 * Len(items)) |->
                    py_index(items[(k + 1) \div 2], (k + 1) % 2)]
    IN  IF FirstError(vals) # "none" THEN BuildRaised(FirstError(vals))
        ELSE Built([msgtype |-> "actionCard",
                    actionCard |->
                        [text |-> text, title |-> title, btnOrientation |-> btnOrientation,
                         btns |-> [i \in 1..Len(items) |->
                                      [title |-> py_index(items[i], 0),
                                       actionURL |-> py_index(items[i], 1)]],
                         hideAvatar |-> "0"]])

\* DDBot.feedCard
DDBot_feedCard(links) ==
    LET items == IF links.t = "tuple" THEN <<links>> ELSE py_list(links)
        vals == [k \in 1..(3 * Len(items)) |->
                    py_index(items[(k + 2) \div 3], (k + 2) % 3)]
    IN  IF FirstError(vals) # "none" THEN BuildRaised(FirstError(vals))
        ELSE Built([msgtype |-> "feedCard",
                    feedCard |->
                        [links |-> [i \in 1..Len(items) |->
                                       [title |-> py_index(items[i], 0),
                                        messageURL |-> py_index(items[i], 1),
                                        picURL |-> py_index(items[i], 2)]]]])

\* ---------------------------------------------------- AsyncDDBot's methods
\* AsyncDDBot.text
AsyncDDBot_text(content, atMobiles, isAtAll) ==
    LET mobiles == IF atMobiles.t = "NoneType" THEN <<>>
                   ELSE IF IsSequence(atMobiles) THEN py_list(atMobiles)
                   ELSE <<atMobiles>>
    IN  Built([text |-> [content |-> content],
               msgtype |-> "text",
               at |-> [atMobiles |-> [i \in 1..Len(mobiles) |-> py_str(mobiles[i])],
                       isAtAll |-> isAtAll]])

\* AsyncDDBot.link
AsyncDDBot_link(title, text, messageURL, picURL) ==
    Built([msgtype |-> "link",
           link |-> [text |-> text, title |-> title, picUrl |-> picURL,
                     messageUrl |-> messageURL]])

\* AsyncDDBot.markdown
AsyncDDBot_markdown(title, text, atMobiles, isAtAll) ==
    LET mobiles == IF atMobiles.t = "NoneType" THEN <<>>
                   ELSE IF IsSequence(atMobiles) THEN py_list(atMobiles)
                   ELSE <<atMobiles>>
    IN  Built([msgtype |-> "markdown",
               at |-> [atMobiles |-> [i \in 1..Len(mobiles) |-> py_str(mobiles[i])],
                       isAtAll |-> isAtAll],
               markdown |-> [text |-> text, title |-> title]])

\* AsyncDDBot.wholeActionCard
AsyncDDBot_wholeActionCard(title, text, singleTitle, singleURL, btnOrientation) ==
    Built([msgtype |-> "actionCard",
           actionCard |-> [text |-> text, title |-> title,
                           singleTitle |-> singleTitle,
                           singleURL |-> singleURL, btnOrientation |-> btnOrientation]])

\* AsyncDDBot.separatedActionCard
AsyncDDBot_separatedActionCard(title, text, btns, btnOrientation) ==
    LET items == IF btns.t = "tuple" THEN <<btns>> ELSE py_list(btns)
        vals == [k \in 1..(2 * Len(items)) |->
                    py_index(items[(k + 1) \div 2], (k + 1) % 2)]
    IN  IF FirstError(vals) # "none" THEN BuildRaised(FirstError(vals))
        ELSE Built([msgtype |-> "actionCard",
                    actionCard |->
                        [text |-> text, title |-> title, btnOrientation |-> btnOrientation,
                         btns |-> [i \in 1..Len(items) |->
                                      [title |-> py_index(items[i], 0),
                                       actionURL |-> py_index(items[i], 1)]],
                         hideAvatar |-> "0"]])

\* AsyncDDBot.feedCard
AsyncDDBot_feedCard(links) ==
    LET items == IF links.t = "tuple" THEN <<links>> ELSE py_list(links)
        vals == [k \in 1..(3 * Len(items)) |->
                    py_index(items[(k + 2) \div 3], (k + 2) % 3)]
    IN  IF FirstError(vals) # "none" THEN BuildRaised(FirstError(vals))
        ELSE Built([msgtype |-> "feedCard",
                    feedCard |->
                        [links |-> [i \in 1..Len(items) |->
                                       [title |-> py_index(items[i], 0),
                                        messageURL |-> py_index(items[i], 1),
                                        picURL |-> py_index(items[i], 2)]]]])

\* ------------------------------------------------------------------ events
NoURL == [base |-> "", query |-> <<>>]
NoResponse == [exc |-> "none", status |-> 0, body |-> ""]
NoOutcome == Outcome("none", PyNone, <<>>)

\* What `last` holds: kind "call" is a call on a DDBot from entry to exit,
\* "issue" a coroutine of an AsyncDDBot reaching its await with the request
\* sent, "return" that coroutine resumed with the transport's answer and run
\* to its end.  url and now are the URL requested and the clock value read
\* while building it; resp is what the transport answered; raised, ret,
\* calls and emitted are how the call ended and what it logged.
Event(kind, bot, task, method, args, payload, url, now, resp, out, emitted) ==
    [calls |-> out.calls, now |-> now, url |-> url, raised |-> out.raised,
     ret |-> out.ret, payload |-> payload, kind |-> kind, bot |-> bot,
     task |-> task, method |-> method, args |-> args,
     resp |-> resp, emitted |-> emitted]

NoEvent == Event("none", 0, 0, "none", <<>>, NoPayload, NoURL, 0, NoResponse,
                 NoOutcome, <<>>)

IdleTask == [bot |-> 0, pc |-> "idle"]

\* Payloads handed to post directly.
PostPayloads == {[msgtype |-> "text"], [msgtype |-> "link"]}

\* ----------------------------------------------------------------- actions
\* The constructors fill the next free slot.
NextSlot == Cardinality({b \in BotIds : bots[b] # NoBot}) + 1

\* bot = DDBot(access_token, secret, logger=arg)
NewDDBot(access_token, secret, arg) ==
    /\ NextSlot \in BotIds
    /\ bots' = [bots EXCEPT ![NextSlot] = DDBot_init(access_token, secret, arg)]
    /\ default_logger' = DDBot_init_logger(arg, default_logger, root)
    /\ UNCHANGED <<root, clock, tasks, last>>

\* bot = AsyncDDBot(access_token, secret, logger=arg)
NewAsyncDDBot(access_token, secret, arg) ==
    /\ NextSlot \in BotIds
    /\ bots' = [bots EXCEPT ![NextSlot] = AsyncDDBot_init(access_token, secret, arg)]
    /\ default_logger' = AsyncDDBot_init_logger(arg, default_logger, root)
    /\ UNCHANGED <<root, clock, tasks, last>>

\* Time passes.
Tick ==
    /\ clock < Epoch + MaxClock
    /\ clock' = clock + 1
    /\ UNCHANGED <<root, default_logger, bots, tasks, last>>

\* DDBot.post(payload), the transport answering r: the whole call.
SyncSend(b, method, args, payload, r) ==
    LET self == bots[b]
        out == post(self, r)
    IN  /\ self.cls = "DDBot"
        /\ last' = Event("call", b, 0, method, args, payload,
                         webhook(self, clock), clock, r, out,
                         Emitted(self, out.calls, default_logger, root))
        /\ UNCHANGED <<root, default_logger, bots, clock, tasks>>

Post(b, payload, r) == SyncSend(b, "post", <<>>, payload, r)

\* AsyncDDBot.post(payload) up to its await: the URL is built, the request
\* is handed to the transport and the coroutine is suspended.
AsyncSend(t, b, method, args, payload) ==
    LET self == bots[b]
    IN  /\ self.cls = "AsyncDDBot"
        /\ tasks[t].pc = "idle"
        /\ tasks' = [tasks EXCEPT ![t] = [bot |-> b, pc |-> "awaiting"]]
        /\ last' = Event("issue", b, t, method, args, payload,
                         async_webhook(self, clock), clock, NoResponse,
                         NoOutcome, <<>>)
        /\ UNCHANGED <<root, default_logger, bots, clock>>

AsyncPost(t, b, payload) == AsyncSend(t, b, "post", <<>>, payload)

\* The transport answers task t's request with r; the coroutine resumes
\* after its await and runs to its end.
AsyncReturn(t, r) ==
    LET self == bots[tasks[t].bot]
        out == async_post(self, r)
    IN  /\ tasks[t].pc = "awaiting"
        /\ tasks' = [tasks EXCEPT ![t] = IdleTask]
        /\ last' = Event("return", tasks[t].bot, t, "post", <<>>,
                         NoPayload, NoURL, 0, r, out,
                         Emitted(self, out.calls, default_logger, root))
        /\ UNCHANGED <<root, default_logger, bots, clock>>

\* ----------------------------------------------------------- specification
\* logging as the process finds it: root with or without handlers (the
\* application may have called logging.basicConfig), at WARNING or INFO.
RootStates == {[level |-> "WARNING", handlers |-> FALSE],
               [level |-> "WARNING", handlers |-> TRUE],
               [level |-> "INFO", handlers |-> TRUE]}

\* The module is imported; no client exists yet.
Init ==
    /\ root \in RootStates
    /\ default_logger = [level |-> "NOTSET", handlers |-> 0]
    /\ bots = [b \in BotIds |-> NoBot]
    /\ clock = Epoch
    /\ tasks = [t \in TaskIds |-> IdleTask]
    /\ last = NoEvent

Next ==
    \/ \E a \in Tokens, s \in Secrets, g \in LoggerArgs : NewDDBot(a, s, g)
    \/ \E a \in Tokens, s \in Secrets, g \in LoggerArgs : NewAsyncDDBot(a, s, g)
    \/ Tick
    \/ \E b \in BotIds, p \in PostPayloads, r \in Responses : Post(b, p, r)

Spec == Init /\ [][Next]_vars

\* A process that has constructed one DDBot and then one AsyncDDBot, with
\* the same logger argument and different secrets.
InitSend ==
    /\ root \in RootStates
    /\ \E g \in LoggerArgs :
         /\ bots = [b \in BotIds |->
                      IF b = 1 THEN DDBot_init(<<"t", "k">>, <<"s">>, g)
                      ELSE IF b = 2 THEN AsyncDDBot_init(<<"t", "k">>, <<"s", "c">>, g)
                      ELSE NoBot]
         /\ default_logger =
              AsyncDDBot_init_logger(g,
                  DDBot_init_logger(g, [level |-> "NOTSET", handlers |-> 0], root),
                  root)
    /\ clock = Epoch
    /\ tasks = [t \in TaskIds |-> IdleTask]
    /\ last = NoEvent

\* Sends on the two clients, the coroutines interleaved in every order.
NextAsync ==
    \/ Tick
    \/ \E b \in BotIds, p \in PostPayloads, r \in Responses : Post(b, p, r)
    \/ \E t \in TaskIds, b \in BotIds, p \in PostPayloads : AsyncPost(t, b, p)
    \/ \E t \in TaskIds, r \in Responses : AsyncReturn(t, r)

SpecAsync == InitSend /\ [][NextAsync]_vars

\* ---------------------------------------------------------- message sends
\* The arguments the message methods are called with.
SeqsUpTo(S, n) == UNION {[1..k -> S] : k \in 0..n}

PhoneValues == {PInt(7), PStr(<<"4", "2">>)}
MobileArgs ==
    {PNone, PInt(7), PInt(42), PStr(<<"7">>), PStr(<<"4", "2">>)}
    \cup {PList(s) : s \in SeqsUpTo(PhoneValues, MaxSeq)}
    \cup {PTuple(s) : s \in SeqsUpTo(PhoneValues, MaxSeq)}

Pairs == {PTuple(<<PStr(<<"A">>), PStr(<<"h", "a">>)>>),
          PTuple(<<PStr(<<"B">>), PStr(<<"h", "b">>)>>)}
BtnsArgs ==
    Pairs \cup {PList(s) : s \in SeqsUpTo(Pairs, MaxSeq)}
          \cup {PTuple(s) : s \in SeqsUpTo(Pairs, MaxSeq)}

Triples == {PTuple(<<PStr(<<"A">>), PStr(<<"h", "a">>), PStr(<<"p", "a">>)>>),
            PTuple(<<PStr(<<"B">>), PStr(<<"h", "b">>), PStr(<<"p", "b">>)>>)}
LinksArgs ==
    Triples \cup {PList(s) : s \in SeqsUpTo(Triples, MaxSeq)}
            \cup {PTuple(s) : s \in SeqsUpTo(Triples, MaxSeq)}

\* picURL = "" is also what link gets when the argument is left out.
PicURLs == {"", "http://p"}
Orientations == {0, 1}

\* The answers of the transport the message sends are tried with: the
\* connection failing, and success.
MsgResponses ==
    {[exc |-> "ConnectError", status |-> 0, body |-> ""],
     [exc |-> "none", status |-> 200, body |-> "{\"errcode\":0,\"errmsg\":\"ok\"}"]}

\* text is tried with every atMobiles and isAtAll left out, and with
\* isAtAll=True; markdown, whose normalisation is the same lines again, with
\* one atMobiles of each kind.
TextCases == (MobileArgs \X {FALSE}) \cup ({PNone, PInt(7)} \X {TRUE})
MarkdownCases ==
    {PNone, PInt(42), PStr(<<"4", "2">>), PList(<<PInt(7), PStr(<<"4", "2">>)>>),
     PTuple(<<PInt(7)>>)} \X BOOLEAN

\* btnOrientation is left out (0) or 1.
BtnsCases == (BtnsArgs \X {0}) \cup (Pairs \X {1})

\* A method of DDBot: it raises while building its payload, or returns
\* self.post(payload).
SyncCall(b, method, args, built, r) ==
    IF built.raised # "none"
    THEN /\ bots[b].cls = "DDBot"
         /\ last' = Event("raise", b, 0, method, args, NoPayload, NoURL, 0,
                          NoResponse, Outcome(built.raised, PyNone, <<>>), <<>>)
         /\ UNCHANGED <<root, default_logger, bots, clock, tasks>>
    ELSE SyncSend(b, method, args, built.payload, r)

\* A coroutine gets the least task id that is free.
FreeTask(t) == /\ tasks[t].pc = "idle"
               /\ \A u \in TaskIds : tasks[u].pc = "idle" => t <= u

\* A method of AsyncDDBot: it raises while building its payload, or awaits
\* self.post(payload).
AsyncCall(t, b, method, args, built) ==
    IF built.raised # "none"
    THEN /\ bots[b].cls = "AsyncDDBot"
         /\ FreeTask(t)
         /\ last' = Event("raise", b, t, method, args, NoPayload, NoURL, 0,
                          NoResponse, Outcome(built.raised, PyNone, <<>>), <<>>)
         /\ UNCHANGED <<root, default_logger, bots, clock, tasks>>
    ELSE FreeTask(t) /\ AsyncSend(t, b, method, args, built.payload)

Text(b, content, atMobiles, isAtAll, r) ==
    SyncCall(b, "text",
             [content |-> content, atMobiles |-> atMobiles, isAtAll |-> isAtAll],
             DDBot_text(content, atMobiles, isAtAll), r)

Link(b, title, text, messageURL, picURL, r) ==
    SyncCall(b, "link",
             [text |-> text, title |-> title, messageURL |-> messageURL,
              picURL |-> picURL],
             DDBot_link(title, text, messageURL, picURL), r)

Markdown(b, title, text, atMobiles, isAtAll, r) ==
    SyncCall(b, "markdown",
             [text |-> text, atMobiles |-> atMobiles, isAtAll |-> isAtAll,
              title |-> title],
             DDBot_markdown(title, text, atMobiles, isAtAll), r)

WholeActionCard(b, title, text, singleTitle, singleURL, btnOrientation, r) ==
    SyncCall(b, "wholeActionCard",
             [text |-> text, title |-> title, singleTitle |-> singleTitle,
              singleURL |-> singleURL, btnOrientation |-> btnOrientation],
             DDBot_wholeActionCard(title, text, singleTitle, singleURL,
                                   btnOrientation), r)

SeparatedActionCard(b, title, text, btns, btnOrientation, r) ==
    SyncCall(b, "separatedActionCard",
             [text |-> text, title |-> title, btnOrientation |-> btnOrientation,
              btns |-> btns],
             DDBot_separatedActionCard(title, text, btns, btnOrientation), r)

FeedCard(b, links, r) ==
    SyncCall(b, "feedCard", [links |-> links], DDBot_feedCard(links), r)

AsyncText(t, b, content, atMobiles, isAtAll) ==
    AsyncCall(t, b, "text",
              [content |-> content, atMobiles |-> atMobiles, isAtAll |-> isAtAll],
              AsyncDDBot_text(content, atMobiles, isAtAll))

AsyncLink(t, b, title, text, messageURL, picURL) ==
    AsyncCall(t, b, "link",
              [text |-> text, title |-> title, messageURL |-> messageURL,
               picURL |-> picURL],
              AsyncDDBot_link(title, text, messageURL, picURL))

AsyncMarkdown(t, b, title, text, atMobiles, isAtAll) ==
    AsyncCall(t, b, "markdown",
              [text |-> text, atMobiles |-> atMobiles, isAtAll |-> isAtAll,
               title |-> title],
              AsyncDDBot_markdown(title, text, atMobiles, isAtAll))

AsyncWholeActionCard(t, b, title, text, singleTitle, singleURL, btnOrientation) ==
    AsyncCall(t, b, "wholeActionCard",
              [text |-> text, title |-> title, singleTitle |-> singleTitle,
               singleURL |-> singleURL, btnOrientation |-> btnOrientation],
              AsyncDDBot_wholeActionCard(title, text, singleTitle, singleURL,
                                         btnOrientation))

AsyncSeparatedActionCard(t, b, title, text, btns, btnOrientation) ==
    AsyncCall(t, b, "separatedActionCard",
              [text |-> text, title |-> title, btnOrientation |-> btnOrientation,
               btns |-> btns],
              AsyncDDBot_separatedActionCard(title, text, btns, btnOrientation))

AsyncFeedCard(t, b, links) ==
    AsyncCall(t, b, "feedCard", [links |-> links], AsyncDDBot_feedCard(links))

\* A process whose logging is untouched and that has constructed one DDBot
\* and one AsyncDDBot with the default logger argument.
InitMsg ==
    /\ root = [level |-> "WARNING", handlers |-> FALSE]
    /\ bots = [b \in BotIds |->
                 IF b = 1 THEN DDBot_init(<<"t", "k">>, <<"s">>, "True")
                 ELSE IF b = 2 THEN AsyncDDBot_init(<<"t", "k">>, <<"s", "c">>, "True")
                 ELSE NoBot]
    /\ default_logger =
         AsyncDDBot_init_logger("True",
             DDBot_init_logger("True", [level |-> "NOTSET", handlers |-> 0], root),
             root)
    /\ clock = Epoch
    /\ tasks = [t \in TaskIds |-> IdleTask]
    /\ last = NoEvent

NextMsg ==
    \/ \E b \in BotIds, c \in TextCases, r \in MsgResponses :
         Text(b, "hello", c[1], c[2], r)
    \/ \E b \in BotIds, p \in PicURLs, r \in MsgResponses :
         Link(b, "T", "body", "http://m", p, r)
    \/ \E b \in BotIds, c \in MarkdownCases, r \in MsgResponses :
         Markdown(b, "T", "# body", c[1], c[2], r)
    \/ \E b \in BotIds, o \in Orientations, r \in MsgResponses :
         WholeActionCard(b, "T", "body", "go", "http://s", o, r)
    \/ \E b \in BotIds, c \in BtnsCases, r \in MsgResponses :
         SeparatedActionCard(b, "T", "body", c[1], c[2], r)
    \/ \E b \in BotIds, x \in LinksArgs, r \in MsgResponses : FeedCard(b, x, r)
    \/ \E t \in TaskIds, b \in BotIds, c \in TextCases :
         AsyncText(t, b, "hello", c[1], c[2])
    \/ \E t \in TaskIds, b \in BotIds, p \in PicURLs :
         AsyncLink(t, b, "T", "body", "http://m", p)
    \/ \E t \in TaskIds, b \in BotIds, c \in MarkdownCases :
         AsyncMarkdown(t, b, "T", "# body", c[1], c[2])
    \/ \E t \in TaskIds, b \in BotIds, o \in Orientations :
         AsyncWholeActionCard(t, b, "T", "body", "go", "http://s", o)
    \/ \E t \in TaskIds, b \in BotIds, c \in BtnsCases :
         AsyncSeparatedActionCard(t, b, "T", "body", c[1], c[2])
    \/ \E t \in TaskIds, b \in BotIds, x \in LinksArgs : AsyncFeedCard(t, b, x)
    \/ \E t \in TaskIds, r \in MsgResponses : AsyncReturn(t, r)

SpecMsg == InitMsg /\ [][NextMsg]_vars

\* ------------------------------------------------------------------ claims
\* A send that has run to its end: a call on a DDBot, or a resumed coroutine.
Ended == last.kind \in {"call", "return"}

\* A send whose request has been built: the URL it asked for is known.
Requested == last.kind \in {"call", "issue"}

\* client.post raised, or raise_for_status did: the claims' "transport fails".
TransportFailed(r) == r.exc # "none" \/ r.status \notin 200..299

\* C1: post (sync and async) never raises to its caller: whatever the
\* transport's outcome and whatever the response body, the call ends by
\* returning a value.
C1_PostNeverRaises == Ended /\ last.method = "post" => last.raised = "none"

\* C2: the value post returns is None exactly when the transport call
\* fails, the raw response text exactly when a 2xx body does not decode as
\* JSON, and otherwise the decoded structure itself, whatever its errcode.
C2_ThreeWayOutcome ==
    Ended /\ last.method = "post" =>
        LET r == last.resp
            j == json(r.body)
        IN  /\ last.raised = "none"
            /\ (last.ret = PyNone) <=> TransportFailed(r)
            /\ (last.ret = PyText(r.body)) <=> (~TransportFailed(r) /\ j.t = "invalid")
            /\ (~TransportFailed(r) /\ j.t # "invalid") => last.ret = PyDecoded(j)

\* The one logger call C3 expects for a transport outcome.
ExpectedLogCall(r) ==
    LET j == json(r.body)
    IN  IF TransportFailed(r) THEN LogCall("ERROR", "traceback", NoJSON)
        ELSE IF j.t = "invalid" THEN LogCall("ERROR", "format", NoJSON)
        ELSE IF j.errcode = 0 THEN LogCall("INFO", "ok", j)
        ELSE IF j.errcode = 310000 THEN LogCall("ERROR", "sign", j)
        ELSE LogCall("ERROR", "api", j)

\* C3: every post makes exactly one log record, chosen by the outcome alone:
\* the failure detail, the format error, the success message at info level,
\* the signature message for errcode 310000, the API-error message otherwise.
C3_OneLogRecord ==
    Ended /\ last.method = "post" => last.calls = <<ExpectedLogCall(last.resp)>>

\* C6: the URL post requests is baseURL?timestamp=T&sign=S&access_token=A
\* with S the base64 signature URL-encoded once, so that decoding the sign
\* parameter of the requested URL one time gives back the base64 signature.
C6_SignEncodedOnce ==
    Requested =>
        LET self == bots[last.bot]
            T == Timestamp(last.now)
            S == b64_hmac_sha256(self.secret, T \o <<"\n">> \o self.secret)
        IN  /\ last.url.base = "https://oapi.dingtalk.com/robot/send"
            /\ [i \in 1..Len(last.url.query) |-> last.url.query[i][1]]
                   = <<"timestamp", "sign", "access_token">>
            /\ QueryValue(last.url, "timestamp") = T
            /\ QueryValue(last.url, "access_token") = self.access_token
            /\ unquote_plus(QueryValue(last.url, "sign")) = S

\* C9: the logger argument decides whether the client logs: a client built
\* with logger=False emits no log record, a client built with logger=True
\* emits the info-level success record of a successful post, and a logger
\* object passed in gets every record.
C9_LoggerArgDecides ==
    Ended =>
        LET self == bots[last.bot]
        IN  /\ self.arg = "False" => last.emitted = <<>>
            /\ self.arg = "True" /\ last.calls # <<>> => last.emitted # <<>>
            /\ self.arg = "object" => last.emitted = last.calls

\* A message method that has handed its payload to post.
Sent(methods) == last.kind \in {"call", "issue"} /\ last.method \in methods

\* A message method that was called, whether or not it got as far as post.
Called(methods) == last.kind \in {"call", "issue", "raise"} /\ last.method \in methods

\* C4: for text and markdown, at.atMobiles is the empty list when atMobiles
\* is omitted, the one-element list holding the string form of a single
\* phone value (an int or a str), and for a sequence of n phone values the n
\* string forms in the same order.
C4_MobilesNormalized ==
    Sent({"text", "markdown"}) =>
        LET a == last.args.atMobiles
            m == last.payload.at.atMobiles
        IN  /\ a.t = "NoneType" => m = <<>>
            /\ a.t \in {"int", "str"} => m = <<py_str(a)>>
            /\ a.t \in {"list", "tuple"} =>
                   m = [i \in 1..Len(a.items) |-> py_str(a.items[i])]

\* The btns or links argument of the card methods, and the list built from it.
CardArg == IF last.method = "feedCard" THEN last.args.links ELSE last.args.btns
CardEntries == IF last.method = "feedCard" THEN last.payload.feedCard.links
               ELSE last.payload.actionCard.btns

\* One (label, url) pair or (label, url, pictureURL) triple: a tuple of strs.
IsItem(v) == v.t = "tuple" /\ v.items # <<>>
             /\ \A i \in 1..Len(v.items) : v.items[i].t = "str"

\* The entry positions 0, 1 (and 2) of one item give.
EntryOf(item) ==
    IF last.method = "feedCard"
    THEN [title |-> item.items[1], messageURL |-> item.items[2],
          picURL |-> item.items[3]]
    ELSE [title |-> item.items[1], actionURL |-> item.items[2]]

\* The argument holds n items and the payload has their n entries, in order.
EntriesFollow(a) ==
    /\ last.kind # "raise"
    /\ CardEntries = [k \in 1..Len(a.items) |-> EntryOf(a.items[k])]

\* C5 as claimed: separatedActionCard and feedCard turn a single pair or
\* triple into a one-element list, and a sequence of n items, held in a list
\* or in a tuple, into n entries in the same order, entry k from item k.
C5_SequenceOfItems ==
    Called({"separatedActionCard", "feedCard"}) =>
        IF IsItem(CardArg)
        THEN last.kind # "raise" /\ CardEntries = <<EntryOf(CardArg)>>
        ELSE EntriesFollow(CardArg)

\* C5 as amended: a single pair or triple (a tuple) gives a one-element
\* list; a list of n items gives n entries in the same order, entry k from
\* item k; a tuple is always taken as one item, so a tuple holding pairs or
\* triples never gives more than one entry.
C5_ListOfItems ==
    Called({"separatedActionCard", "feedCard"}) =>
        /\ IsItem(CardArg) =>
               last.kind # "raise" /\ CardEntries = <<EntryOf(CardArg)>>
        /\ CardArg.t = "list" => EntriesFollow(CardArg)
        /\ CardArg.t = "tuple" /\ last.kind # "raise" => Len(CardEntries) = 1

\* C5's case: a list of two different pairs has been sent.
C5_Witness ==
    /\ Sent({"separatedActionCard"})
    /\ last.args.btns.t = "list"
    /\ Len(last.args.btns.items) = 2
    /\ last.args.btns.items[1] # last.args.btns.items[2]

\* The wire shape of each message kind, filled from the call's arguments.
ShapeOK(method, a, p) ==
    CASE method = "text" ->
           /\ DOMAIN p = {"msgtype", "text", "at"}
           /\ p.msgtype = "text"
           /\ p.text = [content |-> a.content]
           /\ DOMAIN p.at = {"atMobiles", "isAtAll"}
           /\ p.at.isAtAll = a.isAtAll
      [] method = "link" ->
           /\ DOMAIN p = {"msgtype", "link"}
           /\ p.msgtype = "link"
           /\ p.link = [text |-> a.text, title |-> a.title, picUrl |-> a.picURL,
                        messageUrl |-> a.messageURL]
      [] method = "markdown" ->
           /\ DOMAIN p = {"msgtype", "markdown", "at"}
           /\ p.msgtype = "markdown"
           /\ p.markdown = [text |-> a.text, title |-> a.title]
           /\ DOMAIN p.at = {"atMobiles", "isAtAll"}
           /\ p.at.isAtAll = a.isAtAll
      [] method = "wholeActionCard" ->
           /\ DOMAIN p = {"msgtype", "actionCard"}
           /\ p.msgtype = "actionCard"
           /\ p.actionCard = [text |-> a.text, title |-> a.title,
                              singleTitle |-> a.singleTitle,
                              singleURL |-> a.singleURL,
                              btnOrientation |-> a.btnOrientation]
      [] method = "separatedActionCard" ->
           /\ DOMAIN p = {"msgtype", "actionCard"}
           /\ p.msgtype = "actionCard"
           /\ DOMAIN p.actionCard
                  = {"title", "text", "hideAvatar", "btnOrientation", "btns"}
           /\ p.actionCard.title = a.title
           /\ p.actionCard.text = a.text
           /\ p.actionCard.hideAvatar = "0"
           /\ p.actionCard.btnOrientation = a.btnOrientation
           /\ \A i \in 1..Len(p.actionCard.btns) :
                  DOMAIN p.actionCard.btns[i] = {"title", "actionURL"}
      [] method = "feedCard" ->
           /\ DOMAIN p = {"msgtype", "feedCard"}
           /\ p.msgtype = "feedCard"
           /\ DOMAIN p.feedCard = {"links"}
           /\ \A i \in 1..Len(p.feedCard.links) :
                  DOMAIN p.feedCard.links[i] = {"title", "messageURL", "picURL"}

MessageMethods == {"text", "link", "markdown", "wholeActionCard",
                   "separatedActionCard", "feedCard"}

\* C7: each of the six message methods hands post a payload whose msgtype
\* and key set are those of its wire shape, with the caller's arguments
\* unmodified under the named keys (picUrl "" without a picture URL,
\* hideAvatar always "0"), and returns what post returned for that payload.
C7_PayloadShapes ==
    /\ Sent(MessageMethods) => ShapeOK(last.method, last.args, last.payload)
    /\ last.kind = "call" /\ last.method \in MessageMethods =>
           Outcome(last.raised, last.ret, last.calls) = post(bots[last.bot], last.resp)

\* C7's case: link was called without a picture URL and post returned.
C7_Witness ==
    /\ last.kind = "call"
    /\ last.method = "link"
    /\ last.args.picURL = ""
    /\ last.ret.tag = "json"

\* C8: a signed URL is never cached or reused: the timestamp in the URL of
\* every request is the clock value read during that call, the signature is
\* the one of that timestamp, and the client's access token and secret stay
\* what they were at construction.
C8_FreshSignature ==
    /\ Requested =>
           LET self == bots[last.bot]
               T == IntStr(last.now)
           IN  /\ QueryValue(last.url, "timestamp") = T
               /\ unquote_plus(unquote_plus(QueryValue(last.url, "sign")))
                      = b64_hmac_sha256(self.secret, T \o <<"\n">> \o self.secret)
    /\ bots[1].access_token = <<"t", "k">> /\ bots[1].secret = <<"s">>
    /\ bots[2].access_token = <<"t", "k">> /\ bots[2].secret = <<"s", "c">>

\* C8's case: a request is issued after the clock has moved on from the
\* value an earlier request was signed with.
C8_Witness == last.kind = "issue" /\ last.now > Epoch

\* C10: an async send, however the sends on the client interleave, returns
\* the value and emits the log record that DDBot.post returns and emits for
\* the same transport outcome; the coroutines still suspended are untouched.
C10_AsyncMatchesSync ==
    last.kind = "return" =>
        LET self == bots[last.bot]
            o == post(self, last.resp)
        IN  /\ last.raised = o.raised
            /\ last.ret = o.ret
            /\ last.calls = o.calls
            /\ last.emitted = Emitted(self, o.calls, default_logger, root)
            /\ tasks[last.task].pc = "idle"

\* C10's case: one send has returned a decoded error while another send on
\* the same client is still suspended at its await.
C10_Witness ==
    /\ last.kind = "return"
    /\ last.ret.tag = "json"
    /\ last.ret.json.errcode = 310000
    /\ \E u \in TaskIds : tasks[u].pc = "awaiting" /\ tasks[u].bot = last.bot

==========================================================================
